---- MODULE Spec2Model ----
(***************************************************************************)
(* scirpy.datasets: the two database loaders vdjdb() and iedb().           *)
(*                                                                         *)
(* One behaviour is one call of one loader against one cache file.  The    *)
(* call is followed statement by statement (pc), so that the order of the  *)
(* collaborator calls, the rows that were normalized and the content of    *)
(* the cache file can be observed at every point of the call.              *)
(*                                                                         *)
(* Python values are tagged records, so that None, strings, integers and   *)
(* booleans can be compared with each other.  A string is the sequence of  *)
(* its characters: str.upper() and the locus prefixes work on characters.  *)
(* A dataframe is the set of its columns and the sequence of its rows;     *)
(* a row is a function from the columns to values, and carries its index   *)
(* label under "(index)", which is no column.  read_csv labels the rows    *)
(* 0, 1, ...; dropping rows keeps the labels of the rows that stay.        *)
(***************************************************************************)
EXTENDS Integers, Sequences, FiniteSets, TLC

VARIABLES
    pc,          \* the statement the call is at
    fn,          \* the loader that was called: "vdjdb" or "iedb"
    cached,      \* the loader's parameter `cached`
    cacheFile,   \* the content of the file at cache_path
    cache0,      \* history: the content of that file when the call started
    df,          \* the dataframe (df in vdjdb, iedb_df in iedb)
    i,           \* the row the normalization loop is at (1-based)
    tcr_cells,   \* the list of cells built so far
    adata,       \* the container (adata in vdjdb, iedb in iedb)
    result,      \* what the call gave its caller
    steps,       \* history: the collaborator calls made, in order
    resolverCalls, \* history: chains handed to the locus resolver
    fetched      \* history: the table as the fetch collaborator gave it

vars == <<pc, fn, cached, cacheFile, cache0, df, i, tcr_cells, adata,
          result, steps, resolverCalls, fetched>>

----------------------------------------------------------------------------
(* Bounds of the model. *)

\* The largest number of rows the fetch collaborator returns.
MaxRows == 2

----------------------------------------------------------------------------
(* Python values. *)

NULL == [t |-> "null"]
PyStr(s) == [t |-> "str", v |-> s]
PyInt(n) == [t |-> "int", v |-> n]
PyBool(b) == [t |-> "bool", v |-> b]

\* pd.isnull / Series.isna on one value
isnull(x) == x.t = "null"

LowerLetters == <<"a","b","c","d","e","f","g","h","i","j","k","l","m",
                  "n","o","p","q","r","s","t","u","v","w","x","y","z">>
UpperLetters == <<"A","B","C","D","E","F","G","H","I","J","K","L","M",
                  "N","O","P","Q","R","S","T","U","V","W","X","Y","Z">>

UpperChar(c) ==
    IF \E k \in 1..Len(LowerLetters) : LowerLetters[k] = c
    THEN UpperLetters[CHOOSE k \in 1..Len(LowerLetters) : LowerLetters[k] = c]
    ELSE c

\* Series.str.upper() on one value: a null stays null
str_upper(x) ==
    IF isnull(x) THEN NULL
    ELSE PyStr([k \in 1..Len(x.v) |-> UpperChar(x.v[k])])

Digits == <<"0","1","2","3","4","5","6","7","8","9">>

RECURSIVE DigitsOf(_)
DigitsOf(n) ==
    IF n < 10 THEN <<Digits[n + 1]>>
    ELSE DigitsOf(n \div 10) \o <<Digits[(n % 10) + 1]>>

\* str(idx) of a non-negative row label
str(n) == PyStr(DigitsOf(n))

\* d1 updated with d2: dict.update
DictUpdate(d1, d2) == d2 @@ d1

----------------------------------------------------------------------------
(* Collaborators that live outside this file: AirrCell, from_airr_cells,   *)
(* index_chains, sc.read_h5ad.                                             *)

\* AirrCell.empty_chain_dict(): the full fixed field set, every field null
empty_chain_dict ==
    [locus |-> NULL, junction_aa |-> NULL, junction |-> NULL,
     v_call |-> NULL, d_call |-> NULL, j_call |-> NULL,
     consensus_count |-> NULL, productive |-> NULL]

\* AirrCell(cell_id=...): no chain, no metadata field
AirrCell(cell_id) == [cell_id |-> cell_id, chains |-> <<>>, attrs |-> <<>>]

\* AirrCell.add_chain: the chain goes to the end of the cell's chains
add_chain(cell, chain) == [cell EXCEPT !.chains = Append(@, chain)]

\* AirrCell.__setitem__: cell[k] = v
setitem(cell, k, v) == [cell EXCEPT !.attrs = (k :> v) @@ @]

\* from_airr_cells: the container of the cells, in order, with empty uns
from_airr_cells(cells) == [obs |-> cells, uns |-> <<>>, chain_indices |-> NULL]

\* index_chains: for every cell, the loci of its chains in order
index_chains(ad) ==
    [ad EXCEPT !.chain_indices =
        [t |-> "index",
         v |-> [k \in 1..Len(ad.obs) |->
                 [c \in 1..Len(ad.obs[k].chains) |-> ad.obs[k].chains[c].locus]]]]

\* adata.uns["DB"] = {"name": ..., "date_downloaded": datetime.now().isoformat()}
set_uns_DB(ad, name, now) ==
    [ad EXCEPT !.uns = ("DB" :> [name |-> name, date_downloaded |-> now]) @@ @]

\* What datetime.now().isoformat() can give.
Timestamps == {"2023-03-01T10:00:00", "2023-03-02T11:30:00"}

----------------------------------------------------------------------------
(* VDJDB: the source table. *)

CAVR == PyStr(<<"C","A","V","R">>)
CASS == PyStr(<<"C","A","S","S">>)
TRAV3 == PyStr(<<"T","R","A","V","3">>)
TRAJ6 == PyStr(<<"T","R","A","J","6">>)
TRBV9 == PyStr(<<"T","R","B","V","9">>)
TRBD1 == PyStr(<<"T","R","B","D","1">>)
TRBJ2 == PyStr(<<"T","R","B","J","2">>)
TRA == PyStr(<<"T","R","A">>)
TRB == PyStr(<<"T","R","B">>)

INCLUDE_CELL_METADATA_FIELDS ==
    <<"species", "mhc.a", "mhc.b", "mhc.class", "antigen.epitope",
      "antigen.gene", "antigen.species", "reference.id",
      "method.identification", "method.frequency", "method.singlecell",
      "method.sequencing", "method.verification", "meta.study.id",
      "meta.cell.subset", "meta.subject.cohort", "meta.subject.id",
      "meta.replica.id", "meta.clone.id", "meta.epitope.id", "meta.tissue",
      "meta.donor.MHC", "meta.donor.MHC.method", "meta.structure.id",
      "vdjdb.score">>

Range(s) == {s[k] : k \in 1..Len(s)}

VdjdbChainColumns ==
    {"cdr3.alpha", "v.alpha", "j.alpha", "cdr3.beta", "v.beta", "d.beta", "j.beta"}

\* The columns of vdjdb_full.txt that vdjdb() reads.
VdjdbColumns == VdjdbChainColumns \cup Range(INCLUDE_CELL_METADATA_FIELDS)

\* One row of the table.  a, b: whether the alpha / beta CDR3 is given;
\* full: whether the genes and the metadata are given or null.
VdjdbSourceRow(a, b, full) ==
    [c \in VdjdbColumns |->
        CASE c = "cdr3.alpha" -> IF a THEN CAVR ELSE NULL
          [] c = "cdr3.beta"  -> IF b THEN CASS ELSE NULL
          [] c = "v.alpha" -> IF full THEN TRAV3 ELSE NULL
          [] c = "j.alpha" -> IF full THEN TRAJ6 ELSE NULL
          [] c = "v.beta" -> IF full THEN TRBV9 ELSE NULL
          [] c = "d.beta" -> IF full THEN TRBD1 ELSE NULL
          [] c = "j.beta" -> IF full THEN TRBJ2 ELSE NULL
          [] c = "vdjdb.score" -> IF full THEN PyInt(3) ELSE PyInt(0)
          [] OTHER -> IF full THEN PyStr(<<c>>) ELSE NULL]

VdjdbSourceRows ==
    {VdjdbSourceRow(a, b, full) : a \in BOOLEAN, b \in BOOLEAN, full \in BOOLEAN}

\* The sequences over S of at most n elements.
SeqsUpTo(S, n) == UNION {[1..m -> S] : m \in 0..n}

\* The table read_csv makes of the source rows, without the columns in
\* `missing`: row k gets the index label k - 1.
Table(rows, columns, missing) ==
    [columns |-> columns \ missing,
     rows |-> [k \in 1..Len(rows) |->
                ("(index)" :> PyInt(k - 1)) @@ [c \in columns \ missing |-> rows[k][c]]]]

\* What the download can deliver: the full table, or one that lacks a column.
VdjdbTables ==
    {Table(rows, VdjdbColumns, missing) :
        rows \in SeqsUpTo(VdjdbSourceRows, MaxRows),
        missing \in {{}, {"meta.tissue"}, {"j.alpha"}}}

----------------------------------------------------------------------------
(* VDJDB: one iteration of the loop over df.iterrows(). *)

alpha_chain(row) ==
    DictUpdate(empty_chain_dict,
        [locus |-> TRA, junction_aa |-> row["cdr3.alpha"],
         v_call |-> row["v.alpha"], j_call |-> row["j.alpha"],
         consensus_count |-> PyInt(0), productive |-> PyBool(TRUE)])

beta_chain(row) ==
    DictUpdate(empty_chain_dict,
        [locus |-> TRB, junction_aa |-> row["cdr3.beta"],
         v_call |-> row["v.beta"], d_call |-> row["d.beta"],
         j_call |-> row["j.beta"],
         consensus_count |-> PyInt(0), productive |-> PyBool(TRUE)])

\* A variant with the two blocks in the other order.
VdjdbAddChains_BetaFirst(cell, row) ==
    LET c1 == IF ~isnull(row["cdr3.beta"])
              THEN add_chain(cell, beta_chain(row)) ELSE cell
    IN  IF ~isnull(row["cdr3.alpha"]) THEN add_chain(c1, alpha_chain(row)) ELSE c1

\* The cell after the two `if not pd.isnull(...)` blocks.
VdjdbAddChains(cell, row) ==
    LET c1 == IF ~isnull(row["cdr3.alpha"])
              THEN add_chain(cell, alpha_chain(row)) ELSE cell
    IN  IF ~isnull(row["cdr3.beta"]) THEN add_chain(c1, beta_chain(row)) ELSE c1

\* for f in fields[k..]: cell[f] = row[f]
RECURSIVE CopyFields(_, _, _, _)
CopyFields(cell, row, fields, k) ==
    IF k > Len(fields) THEN cell
    ELSE CopyFields(setitem(cell, fields[k], row[fields[k]]), row, fields, k + 1)

\* The columns one iteration reads; row[c] of a column the table lacks
\* raises KeyError.
VdjdbRowRaises(row) ==
    \/ "cdr3.alpha" \notin DOMAIN row
    \/ /\ ~isnull(row["cdr3.alpha"])
       /\ ~({"v.alpha", "j.alpha"} \subseteq DOMAIN row)
    \/ "cdr3.beta" \notin DOMAIN row
    \/ /\ ~isnull(row["cdr3.beta"])
       /\ ~({"v.beta", "d.beta", "j.beta"} \subseteq DOMAIN row)
    \/ ~(Range(INCLUDE_CELL_METADATA_FIELDS) \subseteq DOMAIN row)

\* A variant whose copy loop starts one field late.
VdjdbCell_SkipsFirstField(row) ==
    CopyFields(VdjdbAddChains(AirrCell(str(row["(index)"].v)), row), row,
               INCLUDE_CELL_METADATA_FIELDS, 2)

\* The cell of one (idx, row) of df.iterrows(): idx is the row's label.
VdjdbCell(row) ==
    CopyFields(VdjdbAddChains(AirrCell(str(row["(index)"].v)), row), row,
               INCLUDE_CELL_METADATA_FIELDS, 1)

----------------------------------------------------------------------------
(* IEDB: the source table. *)

alpha == PyStr(<<"a","l","p","h","a">>)
beta == PyStr(<<"b","e","t","a">>)
heavy == PyStr(<<"h","e","a","v","y">>)
light == PyStr(<<"l","i","g","h","t">>)
gamma == PyStr(<<"g","a","m","m","a">>)
delta == PyStr(<<"d","e","l","t","a">>)
IGH == PyStr(<<"I","G","H">>)
IGK == PyStr(<<"I","G","K">>)
IGL == PyStr(<<"I","G","L">>)
TRG == PyStr(<<"T","R","G">>)
TRD == PyStr(<<"T","R","D">>)

\* The columns drop_duplicates is keyed on.
DedupKey ==
    {"Chain 1 CDR3 Curated", "Chain 2 CDR3 Curated", "Organism", "Antigen",
     "Response Type", "Chain 1 Type", "Chain 2 Type"}

\* The arguments of the four replace_curated calls, in call order.
CuratedPairs ==
    <<<<"Chain 1 CDR3 Curated", "Chain 2 CDR3 Curated">>,
      <<"Curated Chain 1 V Gene", "Curated Chain 2 V Gene">>,
      <<"Curated Chain 1 D Gene", "Curated Chain 2 D Gene">>,
      <<"Curated Chain 1 J Gene", "Curated Chain 2 J Gene">>>>

CuratedColumns == UNION {Range(CuratedPairs[k]) : k \in 1..Len(CuratedPairs)}

\* input.replace("Curated", "Calculated") on each curated column name
Calculated(input) ==
    CASE input = "Chain 1 CDR3 Curated" -> "Chain 1 CDR3 Calculated"
      [] input = "Chain 2 CDR3 Curated" -> "Chain 2 CDR3 Calculated"
      [] input = "Curated Chain 1 V Gene" -> "Calculated Chain 1 V Gene"
      [] input = "Curated Chain 2 V Gene" -> "Calculated Chain 2 V Gene"
      [] input = "Curated Chain 1 D Gene" -> "Calculated Chain 1 D Gene"
      [] input = "Curated Chain 2 D Gene" -> "Calculated Chain 2 D Gene"
      [] input = "Curated Chain 1 J Gene" -> "Calculated Chain 1 J Gene"
      [] input = "Curated Chain 2 J Gene" -> "Calculated Chain 2 J Gene"

IedbCellFields ==
    <<"Receptor ID", "Antigen", "Organism", "Response Type", "Reference IRI",
      "Epitope IRI">>

\* The columns of receptor_full_v3 that iedb() reads.
IedbColumns ==
    Range(IedbCellFields) \cup DedupKey \cup CuratedColumns
        \cup {Calculated(c) : c \in CuratedColumns}

\* The gene-name prefix the source uses for a chain-type label.
GenePrefix(type, pf) ==
    CASE type = alpha -> <<"t","r","a">>
      [] type = beta -> <<"t","r","b">>
      [] type = heavy -> <<"i","g","h">>
      [] type = light -> IF pf = "curated" THEN <<"i","g","k">> ELSE <<"i","g","l">>
      [] type = gamma -> <<"t","r","g">>
      [] OTHER -> <<"t","r","d">>

\* A gene name of the source.  Curated names are in mixed case and end in
\* 1, calculated names are in lower case and end in 2.
SourceGene(type, seg, kind, pf) ==
    LET p == GenePrefix(type, pf) IN
    IF pf = "none" THEN NULL
    ELSE IF kind = "Curated"
         THEN IF pf = "curated"
              THEN PyStr(<<UpperChar(p[1]), p[2], p[3], UpperChar(seg), "1">>)
              ELSE NULL
         ELSE PyStr(p \o <<seg, "2">>)

\* A CDR3 of the source, for chain n.
SourceCDR3(n, kind, pf) ==
    IF kind = "Curated"
    THEN CASE pf = "curated" -> PyStr(<<"C","a","s", Digits[n + 1]>>)
           [] pf = "calculated" -> NULL
           [] OTHER -> PyStr(<<"C","A","W", Digits[n + 1]>>)
    ELSE CASE pf = "curated" -> PyStr(<<"c","a","t", Digits[n + 1]>>)
           [] pf = "calculated" -> PyStr(<<"c","a","s", Digits[n + 1]>>)
           [] OTHER -> NULL

\* One row of the export.  rid: the receptor id (not a key column); t1, t2:
\* the chain-type labels; pf: which of the curated and calculated fields
\* are given ("curated": both, "calculated": only the calculated ones,
\* "none": only the curated CDR3).
IedbSourceRow(rid, t1, t2, pf) ==
    [c \in IedbColumns |->
        CASE c = "Receptor ID" -> PyInt(rid)
          [] c = "Antigen" -> PyStr(<<"a","g">>)
          [] c = "Organism" -> PyStr(<<"o","r","g">>)
          [] c = "Response Type" -> PyStr(<<"T">>)
          [] c = "Reference IRI" -> PyStr(<<"r","e","f">>)
          [] c = "Epitope IRI" -> PyStr(<<"e","p","i">>)
          [] c = "Chain 1 Type" -> t1
          [] c = "Chain 2 Type" -> t2
          [] c = "Chain 1 CDR3 Curated" -> SourceCDR3(1, "Curated", pf)
          [] c = "Chain 2 CDR3 Curated" -> SourceCDR3(2, "Curated", pf)
          [] c = "Chain 1 CDR3 Calculated" -> SourceCDR3(1, "Calculated", pf)
          [] c = "Chain 2 CDR3 Calculated" -> SourceCDR3(2, "Calculated", pf)
          [] c = "Curated Chain 1 V Gene" -> SourceGene(t1, "v", "Curated", pf)
          [] c = "Curated Chain 2 V Gene" -> SourceGene(t2, "v", "Curated", pf)
          [] c = "Curated Chain 1 D Gene" -> SourceGene(t1, "d", "Curated", pf)
          [] c = "Curated Chain 2 D Gene" -> SourceGene(t2, "d", "Curated", pf)
          [] c = "Curated Chain 1 J Gene" -> SourceGene(t1, "j", "Curated", pf)
          [] c = "Curated Chain 2 J Gene" -> SourceGene(t2, "j", "Curated", pf)
          [] c = "Calculated Chain 1 V Gene" -> SourceGene(t1, "v", "Calculated", pf)
          [] c = "Calculated Chain 2 V Gene" -> SourceGene(t2, "v", "Calculated", pf)
          [] c = "Calculated Chain 1 D Gene" -> SourceGene(t1, "d", "Calculated", pf)
          [] c = "Calculated Chain 2 D Gene" -> SourceGene(t2, "d", "Calculated", pf)
          [] c = "Calculated Chain 1 J Gene" -> SourceGene(t1, "j", "Calculated", pf)
          [] c = "Calculated Chain 2 J Gene" -> SourceGene(t2, "j", "Calculated", pf)]

TypePairs == {<<alpha, beta>>, <<heavy, light>>, <<gamma, NULL>>}

IedbSourceRows ==
    {IedbSourceRow(1, tp[1], tp[2], pf) :
        tp \in TypePairs, pf \in {"curated", "calculated", "none"}}
    \cup {IedbSourceRow(2, alpha, beta, "calculated"),
          IedbSourceRow(2, heavy, light, "curated")}

\* read_csv gives a column the dtype object when it holds a string or the
\* table has no row, and a numeric dtype otherwise.
ObjectColumns(rows, columns) ==
    {c \in columns : Len(rows) = 0 \/ \E k \in 1..Len(rows) : rows[k][c].t = "str"}

\* What the download can deliver: the full table, or one that lacks a column.
IedbTables ==
    {[columns |-> IedbColumns \ missing,
      rows |-> Table(rows, IedbColumns, missing).rows,
      object |-> ObjectColumns(rows, IedbColumns \ missing)] :
        rows \in SeqsUpTo(IedbSourceRows, MaxRows),
        missing \in {{}, {"Epitope IRI"}}}

----------------------------------------------------------------------------
(* IEDB: preprocessing of the whole table. *)

\* The rows at the positions in K, in order.
RowsAt(rows, K) ==
    LET pos == [m \in 1..Cardinality(K) |->
                    CHOOSE k \in K : Cardinality({j \in K : j < k}) = m - 1]
    IN  [m \in 1..Cardinality(K) |-> rows[pos[m]]]

\* A variant that ignores `subset` and compares all columns.
drop_duplicates_AllColumns(rows, subset) ==
    RowsAt(rows, {k \in 1..Len(rows) :
        ~\E j \in 1..(k - 1) :
            \A c \in DOMAIN rows[k] \ {"(index)"} : rows[j][c] = rows[k][c]})

\* DataFrame.drop_duplicates(subset): of the rows equal on the columns of
\* `subset` (nulls equal), the first one is kept.
drop_duplicates(rows, subset) ==
    RowsAt(rows, {k \in 1..Len(rows) :
        ~\E j \in 1..(k - 1) : \A c \in subset : rows[j][c] = rows[k][c]})

\* A variant without the back-fill from the calculated column.
ReplaceCuratedColumn_NoBackfill(rows, input) ==
    [k \in 1..Len(rows) |-> [rows[k] EXCEPT ![input] = str_upper(@)]]

\* Lines 305-306 (308-309) of replace_curated, for one curated column.
ReplaceCuratedColumn(rows, input) ==
    [k \in 1..Len(rows) |->
        [rows[k] EXCEPT ![input] =
            str_upper(IF isnull(@) THEN rows[k][Calculated(input)] ELSE @)]]

replace_curated(rows, input_1, input_2) ==
    ReplaceCuratedColumn(ReplaceCuratedColumn(rows, input_1), input_2)

\* The four replace_curated calls, from call k on.
RECURSIVE ReplaceCuratedFrom(_, _)
ReplaceCuratedFrom(rows, k) ==
    IF k > Len(CuratedPairs) THEN rows
    ELSE ReplaceCuratedFrom(
            replace_curated(rows, CuratedPairs[k][1], CuratedPairs[k][2]), k + 1)

\* replace_curated raises: KeyError when a column is not in the table,
\* AttributeError from .str when neither the curated nor the calculated
\* column holds a string (the column keeps its numeric dtype).
ReplaceCuratedRaises(d) ==
    \E c \in CuratedColumns :
        \/ ~({c, Calculated(c)} \subseteq d.columns)
        \/ (c \notin d.object /\ Calculated(c) \notin d.object)

\* iedb_df["cell_id"] = iedb_df.reset_index(drop=True).index
AssignCellId(rows) ==
    [k \in 1..Len(rows) |-> ("cell_id" :> PyInt(k - 1)) @@ rows[k]]

accepted_chains == {alpha, beta, heavy, light, gamma, delta}

\* A variant that numbers the cells after the filter.
FilterAccepted_ThenCellId(rows) ==
    AssignCellId(RowsAt(rows, {k \in 1..Len(rows) :
        /\ rows[k]["Chain 1 Type"] \in accepted_chains
        /\ rows[k]["Chain 2 Type"] \in accepted_chains}))

\* The rows whose two chain-type labels are both accepted.
FilterAccepted(rows) ==
    RowsAt(rows, {k \in 1..Len(rows) :
        /\ rows[k]["Chain 1 Type"] \in accepted_chains
        /\ rows[k]["Chain 2 Type"] \in accepted_chains})

----------------------------------------------------------------------------
(* IEDB: one iteration of the loop over iedb_df.iterrows(). *)

\* A variant that leaves the heavy chain open as well.
receptor_dict_HeavyOpen(label) ==
    CASE label = alpha -> TRA
      [] label = beta -> TRB
      [] label = heavy -> NULL
      [] label = light -> NULL
      [] label = gamma -> TRG
      [] label = delta -> TRD

receptor_dict(label) ==
    CASE label = alpha -> TRA
      [] label = beta -> TRB
      [] label = heavy -> IGH
      [] label = light -> NULL
      [] label = gamma -> TRG
      [] label = delta -> TRD

Loci == {TRA, TRB, TRG, TRD, IGH, IGK, IGL}

\* _infer_locus_from_gene_names: the locus whose code the first gene name
\* that names one starts with, the keys taken in order; None when no key
\* names a locus.
RECURSIVE InferFrom(_, _, _)
InferFrom(chain_dict, keys, k) ==
    IF k > Len(keys) THEN NULL
    ELSE LET g == chain_dict[keys[k]] IN
         IF ~isnull(g) /\ Len(g.v) >= 3 /\ PyStr(SubSeq(g.v, 1, 3)) \in Loci
         THEN PyStr(SubSeq(g.v, 1, 3))
         ELSE InferFrom(chain_dict, keys, k + 1)

infer_locus_from_gene_names(chain_dict, keys) == InferFrom(chain_dict, keys, 1)

chain1(row) ==
    DictUpdate(empty_chain_dict,
        [locus |-> receptor_dict(row["Chain 1 Type"]),
         junction_aa |-> row["Chain 1 CDR3 Curated"],
         junction |-> NULL, consensus_count |-> NULL,
         v_call |-> row["Curated Chain 1 V Gene"],
         d_call |-> NULL,
         j_call |-> row["Curated Chain 1 J Gene"],
         productive |-> PyBool(TRUE)])

chain2(row) ==
    DictUpdate(empty_chain_dict,
        [locus |-> receptor_dict(row["Chain 2 Type"]),
         junction_aa |-> row["Chain 2 CDR3 Curated"],
         junction |-> NULL, consensus_count |-> NULL,
         v_call |-> row["Curated Chain 2 V Gene"],
         d_call |-> row["Curated Chain 2 D Gene"],
         j_call |-> row["Curated Chain 2 J Gene"],
         productive |-> PyBool(TRUE)])

\* The body of `for chain_dict in [chain1, chain2]` for one chain.
ResolveLocus(chain_dict) ==
    IF isnull(chain_dict.locus)
    THEN [chain_dict EXCEPT !.locus =
            infer_locus_from_gene_names(chain_dict, <<"v_call", "d_call", "j_call">>)]
    ELSE chain_dict

\* The resolver calls of one iteration: the chain number and the type label
\* of every chain whose locus the table leaves open.
ResolverCallsOf(row) ==
    LET calls == SelectSeq(<<1, 2>>,
            LAMBDA n : isnull((IF n = 1 THEN chain1(row) ELSE chain2(row)).locus))
    IN  [k \in 1..Len(calls) |->
            [cell_id |-> row["cell_id"], chain |-> calls[k],
             label |-> IF calls[k] = 1 THEN row["Chain 1 Type"]
                       ELSE row["Chain 2 Type"]]]

IedbCell(row) ==
    LET cell == CopyFields(AirrCell(row["cell_id"]), row, IedbCellFields, 1)
    IN  add_chain(add_chain(cell, ResolveLocus(chain1(row))),
                  ResolveLocus(chain2(row)))

\* row[c] of a column the table lacks raises KeyError.
IedbRowRaises(row) ==
    ~((Range(IedbCellFields) \cup (CuratedColumns \ {"Curated Chain 1 D Gene"})
        \cup {"cell_id", "Chain 1 Type", "Chain 2 Type"}) \subseteq DOMAIN row)

----------------------------------------------------------------------------
(* The cache file. *)

\* sc.read_h5ad(cache_path): the container of a file written by write_h5ad.
\* A file that is not there gives FileNotFoundError, a file that is no HDF5
\* file gives OSError (both from opening the file), and an HDF5 file whose
\* content is no AnnData gives the error of the element that cannot be
\* read, which is no OSError.
read_h5ad(file) ==
    CASE file.kind = "h5ad" -> [ok |-> TRUE, value |-> file.data]
      [] file.kind = "absent" -> [ok |-> FALSE, exc |-> "FileNotFoundError"]
      [] file.kind = "not_hdf5" -> [ok |-> FALSE, exc |-> "OSError"]
      [] file.kind = "bad_anndata" -> [ok |-> FALSE, exc |-> "KeyError"]

\* `except OSError`: the exception classes the handler catches.
IsOSError(exc) == exc \in {"OSError", "FileNotFoundError"}

\* adata.write_h5ad(cache_path): the file holds the container.
write_h5ad(ad) == [kind |-> "h5ad", data |-> ad]

\* A container that an earlier call has persisted.
PriorResult ==
    set_uns_DB(
        index_chains(from_airr_cells(
            <<VdjdbCell(Table(<<VdjdbSourceRow(TRUE, TRUE, TRUE)>>,
                              VdjdbColumns, {}).rows[1])>>)),
        "VDJDB", "2023-01-15T09:00:00")

\* What the file at cache_path can hold when a loader is called.
CacheFiles ==
    {[kind |-> "absent"], [kind |-> "not_hdf5"], [kind |-> "bad_anndata"],
     write_h5ad(PriorResult)}

----------------------------------------------------------------------------
(* The state machine. *)

NoResult == [kind |-> "none"]
Returned(value) == [kind |-> "return", value |-> value]
Raised(exc) == [kind |-> "raise", exc |-> exc]
NoTable == [columns |-> {}, rows |-> <<>>]

Init ==
    /\ pc = "if_cached"
    /\ fn \in {"vdjdb", "iedb"}
    /\ cached \in BOOLEAN
    /\ cacheFile \in CacheFiles
    /\ cache0 = cacheFile
    /\ df = NoTable
    /\ i = 0
    /\ tcr_cells = <<>>
    /\ adata = NULL
    /\ result = NoResult
    /\ steps = <<>>
    /\ resolverCalls = <<>>
    /\ fetched = NoTable

\* The call ends with an exception that reaches the caller.
Raise(exc) ==
    /\ pc' = "done"
    /\ result' = Raised(exc)

\* `if cached:`
IfCached ==
    /\ pc = "if_cached"
    /\ pc' = IF cached THEN "read_h5ad" ELSE "fetch"
    /\ UNCHANGED <<fn, cached, cacheFile, cache0, df, i, tcr_cells, adata,
                   result, steps, resolverCalls, fetched>>

\* A variant that reads the cache and goes on to fetch all the same.
ReadCache_NoReturn ==
    /\ pc = "read_h5ad"
    /\ steps' = Append(steps, "read_h5ad")
    /\ pc' = "fetch"
    /\ UNCHANGED <<fn, cached, cacheFile, cache0, df, i, tcr_cells, adata,
                   result, resolverCalls, fetched>>

\* try: return sc.read_h5ad(cache_path) / except OSError: pass
ReadCache ==
    /\ pc = "read_h5ad"
    /\ steps' = Append(steps, "read_h5ad")
    /\ LET r == read_h5ad(cacheFile) IN
         IF r.ok THEN pc' = "done" /\ result' = Returned(r.value)
         ELSE IF IsOSError(r.exc) THEN pc' = "fetch" /\ UNCHANGED result
         ELSE Raise(r.exc)
    /\ UNCHANGED <<fn, cached, cacheFile, cache0, df, i, tcr_cells, adata,
                   resolverCalls, fetched>>

\* vdjdb: the download of the latest release and pd.read_csv
VdjdbFetch ==
    /\ pc = "fetch" /\ fn = "vdjdb"
    /\ steps' = Append(steps, "fetch")
    /\ \/ /\ Raise("URLError")
          /\ UNCHANGED <<df, i, fetched>>
       \/ \E table \in VdjdbTables :
            /\ df' = table
            /\ fetched' = table
            /\ i' = 1
            /\ pc' = "iterrows"
            /\ UNCHANGED result
    /\ UNCHANGED <<fn, cached, cacheFile, cache0, tcr_cells, adata, resolverCalls>>

\* vdjdb: one iteration of `for idx, row in df.iterrows()`
VdjdbIterRow ==
    /\ pc = "iterrows" /\ fn = "vdjdb"
    /\ i <= Len(df.rows)
    /\ IF VdjdbRowRaises(df.rows[i])
       THEN Raise("KeyError") /\ UNCHANGED <<i, tcr_cells>>
       ELSE /\ tcr_cells' = Append(tcr_cells, VdjdbCell(df.rows[i]))
            /\ i' = i + 1
            /\ UNCHANGED <<pc, result>>
    /\ UNCHANGED <<fn, cached, cacheFile, cache0, df, adata, steps, resolverCalls,
                   fetched>>

\* A variant that leaves out index_chains.
VdjdbFromAirrCells_NoIndex ==
    /\ pc = "iterrows" /\ fn = "vdjdb"
    /\ i > Len(df.rows)
    /\ adata' = from_airr_cells(tcr_cells)
    /\ steps' = Append(steps, "from_airr_cells")
    /\ pc' = "uns_DB"
    /\ UNCHANGED <<fn, cached, cacheFile, cache0, df, i, tcr_cells, result,
                   resolverCalls, fetched>>

\* vdjdb: adata = from_airr_cells(tcr_cells), once the loop is over
VdjdbFromAirrCells ==
    /\ pc = "iterrows" /\ fn = "vdjdb"
    /\ i > Len(df.rows)
    /\ adata' = from_airr_cells(tcr_cells)
    /\ steps' = Append(steps, "from_airr_cells")
    /\ pc' = "index_chains"
    /\ UNCHANGED <<fn, cached, cacheFile, cache0, df, i, tcr_cells, result,
                   resolverCalls, fetched>>

\* vdjdb: index_chains(adata)
VdjdbIndexChains ==
    /\ pc = "index_chains" /\ fn = "vdjdb"
    /\ adata' = index_chains(adata)
    /\ steps' = Append(steps, "index_chains")
    /\ pc' = "uns_DB"
    /\ UNCHANGED <<fn, cached, cacheFile, cache0, df, i, tcr_cells, result,
                   resolverCalls, fetched>>

\* vdjdb: adata.uns["DB"] = {...}
VdjdbSetDB ==
    /\ pc = "uns_DB" /\ fn = "vdjdb"
    /\ \E now \in Timestamps : adata' = set_uns_DB(adata, "VDJDB", now)
    /\ steps' = Append(steps, "uns_DB")
    /\ pc' = "write_h5ad"
    /\ UNCHANGED <<fn, cached, cacheFile, cache0, df, i, tcr_cells, result,
                   resolverCalls, fetched>>

\* vdjdb: os.makedirs(...); adata.write_h5ad(cache_path)
VdjdbWrite ==
    /\ pc = "write_h5ad" /\ fn = "vdjdb"
    /\ cacheFile' = write_h5ad(adata)
    /\ steps' = Append(steps, "write_h5ad")
    /\ pc' = "return"
    /\ UNCHANGED <<fn, cached, cache0, df, i, tcr_cells, adata, result,
                   resolverCalls, fetched>>

\* vdjdb: return adata
VdjdbReturn ==
    /\ pc = "return" /\ fn = "vdjdb"
    /\ result' = Returned(adata)
    /\ pc' = "done"
    /\ UNCHANGED <<fn, cached, cacheFile, cache0, df, i, tcr_cells, adata,
                   steps, resolverCalls, fetched>>

\* iedb: pd.read_csv of the export
IedbFetch ==
    /\ pc = "fetch" /\ fn = "iedb"
    /\ steps' = Append(steps, "fetch")
    /\ \/ /\ Raise("URLError")
          /\ UNCHANGED <<df, fetched>>
       \/ \E table \in IedbTables :
            /\ df' = table
            /\ fetched' = table
            /\ pc' = "drop_duplicates"
            /\ UNCHANGED result
    /\ UNCHANGED <<fn, cached, cacheFile, cache0, i, tcr_cells, adata,
                   resolverCalls>>

\* iedb: drop_duplicates() on all columns, then on the key columns
IedbDropDuplicates ==
    /\ pc = "drop_duplicates" /\ fn = "iedb"
    /\ IF DedupKey \subseteq df.columns
       THEN /\ df' = [df EXCEPT !.rows =
                        drop_duplicates(drop_duplicates(@, df.columns), DedupKey)]
            /\ pc' = "replace_curated"
            /\ UNCHANGED result
       ELSE Raise("KeyError") /\ UNCHANGED df
    /\ UNCHANGED <<fn, cached, cacheFile, cache0, i, tcr_cells, adata, steps,
                   resolverCalls, fetched>>

\* iedb: the four replace_curated calls
IedbReplaceCurated ==
    /\ pc = "replace_curated" /\ fn = "iedb"
    /\ IF ReplaceCuratedRaises(df)
       THEN /\ Raise(IF CuratedColumns \cup {Calculated(c) : c \in CuratedColumns}
                            \subseteq df.columns
                      THEN "AttributeError" ELSE "KeyError")
            /\ UNCHANGED df
       ELSE /\ df' = [df EXCEPT !.rows = ReplaceCuratedFrom(@, 1)]
            /\ pc' = "cell_id"
            /\ UNCHANGED result
    /\ UNCHANGED <<fn, cached, cacheFile, cache0, i, tcr_cells, adata, steps,
                   resolverCalls, fetched>>

\* iedb: iedb_df["cell_id"] = iedb_df.reset_index(drop=True).index
IedbCellId ==
    /\ pc = "cell_id" /\ fn = "iedb"
    /\ df' = [df EXCEPT !.rows = AssignCellId(@), !.columns = @ \cup {"cell_id"}]
    /\ pc' = "accepted_chains"
    /\ UNCHANGED <<fn, cached, cacheFile, cache0, i, tcr_cells, adata, result,
                   steps, resolverCalls, fetched>>

\* iedb: the rows with accepted chain types are kept
IedbFilter ==
    /\ pc = "accepted_chains" /\ fn = "iedb"
    /\ df' = [df EXCEPT !.rows = FilterAccepted(@)]
    /\ i' = 1
    /\ pc' = "iterrows"
    /\ UNCHANGED <<fn, cached, cacheFile, cache0, tcr_cells, adata, result, steps,
                   resolverCalls, fetched>>

\* A variant that stores the cells built so far after every row.
IedbIterRow_WritesAsItGoes ==
    /\ pc = "iterrows" /\ fn = "iedb"
    /\ i <= Len(df.rows)
    /\ IF IedbRowRaises(df.rows[i])
       THEN Raise("KeyError") /\ UNCHANGED <<i, tcr_cells, resolverCalls, cacheFile>>
       ELSE /\ tcr_cells' = Append(tcr_cells, IedbCell(df.rows[i]))
            /\ resolverCalls' = resolverCalls \o ResolverCallsOf(df.rows[i])
            /\ cacheFile' = write_h5ad(from_airr_cells(tcr_cells'))
            /\ i' = i + 1
            /\ UNCHANGED <<pc, result>>
    /\ UNCHANGED <<fn, cached, cache0, df, adata, steps, fetched>>

\* iedb: one iteration of `for _, row in iedb_df.iterrows()`
IedbIterRow ==
    /\ pc = "iterrows" /\ fn = "iedb"
    /\ i <= Len(df.rows)
    /\ IF IedbRowRaises(df.rows[i])
       THEN Raise("KeyError") /\ UNCHANGED <<i, tcr_cells, resolverCalls>>
       ELSE /\ tcr_cells' = Append(tcr_cells, IedbCell(df.rows[i]))
            /\ resolverCalls' = resolverCalls \o ResolverCallsOf(df.rows[i])
            /\ i' = i + 1
            /\ UNCHANGED <<pc, result>>
    /\ UNCHANGED <<fn, cached, cacheFile, cache0, df, adata, steps, fetched>>

\* iedb: iedb = from_airr_cells(tcr_cells), once the loop is over
IedbFromAirrCells ==
    /\ pc = "iterrows" /\ fn = "iedb"
    /\ i > Len(df.rows)
    /\ adata' = from_airr_cells(tcr_cells)
    /\ steps' = Append(steps, "from_airr_cells")
    /\ pc' = "uns_DB"
    /\ UNCHANGED <<fn, cached, cacheFile, cache0, df, i, tcr_cells, result,
                   resolverCalls, fetched>>

\* iedb: iedb.uns["DB"] = {...}
IedbSetDB ==
    /\ pc = "uns_DB" /\ fn = "iedb"
    /\ \E now \in Timestamps : adata' = set_uns_DB(adata, "IEDB", now)
    /\ steps' = Append(steps, "uns_DB")
    /\ pc' = "index_chains"
    /\ UNCHANGED <<fn, cached, cacheFile, cache0, df, i, tcr_cells, result,
                   resolverCalls, fetched>>

\* iedb: index_chains(iedb)
IedbIndexChains ==
    /\ pc = "index_chains" /\ fn = "iedb"
    /\ adata' = index_chains(adata)
    /\ steps' = Append(steps, "index_chains")
    /\ pc' = "write_h5ad"
    /\ UNCHANGED <<fn, cached, cacheFile, cache0, df, i, tcr_cells, result,
                   resolverCalls, fetched>>

\* iedb: os.makedirs(...); iedb.write_h5ad(cache_path)
IedbWrite ==
    /\ pc = "write_h5ad" /\ fn = "iedb"
    /\ cacheFile' = write_h5ad(adata)
    /\ steps' = Append(steps, "write_h5ad")
    /\ pc' = "return"
    /\ UNCHANGED <<fn, cached, cache0, df, i, tcr_cells, adata, result,
                   resolverCalls, fetched>>

\* iedb: return iedb
IedbReturn ==
    /\ pc = "return" /\ fn = "iedb"
    /\ result' = Returned(adata)
    /\ pc' = "done"
    /\ UNCHANGED <<fn, cached, cacheFile, cache0, df, i, tcr_cells, adata,
                   steps, resolverCalls, fetched>>

Next ==
    \/ IfCached
    \/ ReadCache
    \/ VdjdbFetch
    \/ VdjdbIterRow
    \/ VdjdbFromAirrCells
    \/ VdjdbIndexChains
    \/ VdjdbSetDB
    \/ VdjdbWrite
    \/ VdjdbReturn
    \/ IedbFetch
    \/ IedbDropDuplicates
    \/ IedbReplaceCurated
    \/ IedbCellId
    \/ IedbFilter
    \/ IedbIterRow
    \/ IedbFromAirrCells
    \/ IedbSetDB
    \/ IedbIndexChains
    \/ IedbWrite
    \/ IedbReturn

Spec == Init /\ [][Next]_vars

----------------------------------------------------------------------------
(* The claims. *)

StepsMade == Range(steps)

\* The call took the fetch path and returned.
FetchPathReturned ==
    pc = "done" /\ result.kind = "return" /\ "fetch" \in StepsMade

\* The loop over the rows is over.
LoopDone ==
    \/ pc \in {"index_chains", "uns_DB", "write_h5ad", "return"}
    \/ FetchPathReturned

LociOf(cell) == [c \in 1..Len(cell.chains) |-> cell.chains[c].locus]

\* C1: every VDJDB row gives one cell; the cell has a TRA chain iff the
\* row's cdr3.alpha is non-null and a TRB chain iff its cdr3.beta is
\* non-null, TRA before TRB; every chain has consensus_count 0 and
\* productive true.
C1_VdjdbChainsFollowCdr3 ==
    fn = "vdjdb" =>
        /\ pc = "iterrows" => Len(tcr_cells) = i - 1
        /\ LoopDone => Len(tcr_cells) = Len(df.rows)
        /\ \A k \in 1..Len(tcr_cells) :
            LET row == df.rows[k]
                cell == tcr_cells[k]
            IN  /\ LociOf(cell) =
                      (IF isnull(row["cdr3.alpha"]) THEN <<>> ELSE <<TRA>>)
                      \o (IF isnull(row["cdr3.beta"]) THEN <<>> ELSE <<TRB>>)
                /\ \A c \in 1..Len(cell.chains) :
                      /\ cell.chains[c].consensus_count = PyInt(0)
                      /\ cell.chains[c].productive = PyBool(TRUE)

\* C1's case: a run that gave a cell with two chains and a cell with none.
C1_Witness ==
    /\ fn = "vdjdb" /\ FetchPathReturned
    /\ Len(tcr_cells) = 2
    /\ LociOf(tcr_cells[1]) = <<TRA, TRB>>
    /\ Len(tcr_cells[2].chains) = 0

\* C2: with cached=True and a valid persisted result at cache_path, the
\* call returns that result; it never fetches, normalizes no row and does
\* not rewrite the cache file.
C2_CacheHitReturnsWithoutFetch ==
    (cached /\ cache0.kind = "h5ad") =>
        /\ pc # "fetch"
        /\ "fetch" \notin StepsMade
        /\ "write_h5ad" \notin StepsMade
        /\ tcr_cells = <<>> /\ i = 0
        /\ cacheFile = cache0
        /\ pc = "done" => result = Returned(cache0.data)

\* C2's case: the call has returned from a valid cache file.
C2_Witness ==
    /\ cached /\ cache0.kind = "h5ad"
    /\ pc = "done" /\ result.kind = "return"
    /\ steps = <<"read_h5ad">>

\* C3: with cached=True, any failure of the cache read (file missing, or
\* there but unreadable) is a cache miss: it is never raised to the caller
\* and control falls through to the fetch.
C3_AnyReadFailureIsMiss ==
    (cached /\ cache0.kind # "h5ad" /\ "read_h5ad" \in StepsMade) =>
        /\ pc = "fetch" \/ "fetch" \in StepsMade
        /\ ~(result.kind = "raise" /\ "fetch" \notin StepsMade)

CellIds == [k \in 1..Len(tcr_cells) |-> tcr_cells[k].cell_id]

\* The fetched row that row k of the dataframe comes from.
Src(k) == fetched.rows[df.rows[k]["(index)"].v + 1]

\* Fetched rows a and b agree on the seven key columns.
SameKey(a, b) == \A c \in DedupKey : fetched.rows[a][c] = fetched.rows[b][c]

\* The number of fetched rows before row a that are the first of their key:
\* the 0-based position of row a among the deduplicated rows.
PositionAfterDedup(a) ==
    Cardinality({j \in 1..(a - 1) : ~\E h \in 1..(j - 1) : SameKey(h, j)})

Preprocessed == fn = "iedb" /\ i >= 1

\* C5: of two fetched IEDB rows that agree on the seven key columns (nulls
\* equal), at most one survives preprocessing and becomes a cell, also when
\* they differ in other columns.
C5_OnePerKeySurvives ==
    Preprocessed =>
        /\ \A a, b \in 1..Len(fetched.rows) :
              (a < b /\ SameKey(a, b)) =>
                  ~({a - 1, b - 1} \subseteq
                        {df.rows[k]["(index)"].v : k \in 1..Len(df.rows)})
        /\ Len(tcr_cells) <= Len(df.rows)
        /\ \A k \in 1..Len(tcr_cells) :
              tcr_cells[k].attrs["Receptor ID"] = Src(k)["Receptor ID"]

\* C5's case: two rows with the same key and different receptor ids were
\* fetched, and the run gave one cell, for the first of them.
C5_Witness ==
    /\ Preprocessed /\ FetchPathReturned
    /\ Len(fetched.rows) = 2
    /\ SameKey(1, 2)
    /\ fetched.rows[1]["Chain 1 CDR3 Curated"] = NULL
    /\ fetched.rows[1]["Receptor ID"] # fetched.rows[2]["Receptor ID"]
    /\ Len(tcr_cells) = 1
    /\ tcr_cells[1].attrs["Receptor ID"] = PyInt(1)

\* The curated value of the source row when it is given, else the
\* calculated one, in upper case.
CuratedElseCalculated(src, curated) ==
    str_upper(IF isnull(src[curated]) THEN src[Calculated(curated)] ELSE src[curated])

FixedLocus ==
    {<<alpha, TRA>>, <<beta, TRB>>, <<heavy, IGH>>, <<gamma, TRG>>, <<delta, TRD>>}

TypeOf(row, n) == IF n = 1 THEN row["Chain 1 Type"] ELSE row["Chain 2 Type"]

\* C7: a light chain whose locus cannot be resolved does not abort the
\* run: the chain is added with a null locus, its cell is appended and the
\* later rows are processed; a chain that is not light takes its locus from
\* the fixed table and the resolver is not called for it.
C7_UnresolvedLightChainIsKept ==
    fn = "iedb" =>
        /\ \A c \in 1..Len(resolverCalls) : resolverCalls[c].label = light
        /\ \A k \in 1..Len(tcr_cells) :
              /\ Len(tcr_cells[k].chains) = 2
              /\ \A n \in {1, 2} :
                    LET locus == tcr_cells[k].chains[n].locus IN
                    IF TypeOf(df.rows[k], n) = light
                    THEN /\ locus \in {IGK, IGL, NULL}
                         /\ \E c \in 1..Len(resolverCalls) :
                               /\ resolverCalls[c].cell_id = tcr_cells[k].cell_id
                               /\ resolverCalls[c].chain = n
                    ELSE <<TypeOf(df.rows[k], n), locus>> \in FixedLocus
        /\ pc = "iterrows" => Len(tcr_cells) = i - 1
        /\ LoopDone => Len(tcr_cells) = Len(df.rows)
        /\ (pc = "done" /\ result.kind = "raise" /\ i >= 1)
              => "Epitope IRI" \notin df.columns

\* C7's case: the light chain of the first row stayed unresolved, and the
\* run went on to the second row and returned both cells.
C7_Witness ==
    /\ fn = "iedb" /\ FetchPathReturned
    /\ Len(tcr_cells) = 2
    /\ df.rows[1]["Chain 2 Type"] = light
    /\ tcr_cells[1].chains[2].locus = NULL
    /\ tcr_cells[2].chains[1].locus = TRA
    /\ Len(result.value.obs) = 2

\* C8 as claimed: every cell of vdjdb() carries the 24 allow-list fields,
\* copied from the row; when the table lacks an allow-list column the key
\* is there with a null value and the run does not fail.
C8_MissingColumnGivesNull ==
    (fn = "vdjdb" /\ pc = "done" /\ i >= 1 /\ VdjdbChainColumns \subseteq df.columns) =>
        /\ result.kind = "return"
        /\ Len(tcr_cells) = Len(df.rows)
        /\ \A k \in 1..Len(tcr_cells) :
              \A f \in Range(INCLUDE_CELL_METADATA_FIELDS) :
                  /\ f \in DOMAIN tcr_cells[k].attrs
                  /\ tcr_cells[k].attrs[f] =
                        IF f \in df.columns THEN df.rows[k][f] ELSE NULL
        /\ Len(INCLUDE_CELL_METADATA_FIELDS) = 24

\* C8 as amended: every cell of vdjdb() carries exactly the 25 allow-list
\* fields, each with the row's value (a null stays a null); when the table
\* has rows and lacks an allow-list column, the first row raises KeyError:
\* no cell is built, the call fails and the cache file stays as it was.
C8_AllowListCopiedOrKeyError ==
    fn = "vdjdb" =>
        /\ \A k \in 1..Len(tcr_cells) :
              /\ Cardinality(DOMAIN tcr_cells[k].attrs) = 25
              /\ {"species", "meta.tissue", "vdjdb.score"} \subseteq DOMAIN tcr_cells[k].attrs
              /\ \A f \in DOMAIN tcr_cells[k].attrs :
                    f \in df.columns /\ tcr_cells[k].attrs[f] = df.rows[k][f]
        /\ (i >= 1 /\ "meta.tissue" \notin df.columns /\ Len(df.rows) > 0) =>
              /\ tcr_cells = <<>>
              /\ adata = NULL
              /\ cacheFile = cache0
              /\ pc = "done" => result = Raised("KeyError")

\* C8's case: a table with two rows and without the column meta.tissue
\* made the call fail.
C8_Witness ==
    /\ fn = "vdjdb" /\ pc = "done"
    /\ "meta.tissue" \notin df.columns
    /\ Len(df.rows) = 2
    /\ result = Raised("KeyError")

\* The collaborator calls of the fetch path, without the cache read.
FetchPathSteps == SelectSeq(steps, LAMBDA st : st # "read_h5ad")

\* The container the call returned is the one in the cache file, and holds
\* all cells, the metadata record and the chain index.
ReturnedIsPersisted ==
    /\ cacheFile = write_h5ad(result.value)
    /\ Len(result.value.obs) = Len(df.rows)
    /\ "DB" \in DOMAIN result.value.uns
    /\ result.value.uns["DB"].name = (IF fn = "vdjdb" THEN "VDJDB" ELSE "IEDB")
    /\ result.value.uns["DB"].date_downloaded \in Timestamps
    /\ result.value.chain_indices # NULL

\* C9 as claimed: on the fetch path of both loaders the order is fetch,
\* normalize, assemble, metadata record, chain indexing, persist, return.
C9_MetadataBeforeIndexInBoth ==
    FetchPathReturned =>
        /\ FetchPathSteps =
              <<"fetch", "from_airr_cells", "uns_DB", "index_chains", "write_h5ad">>
        /\ ReturnedIsPersisted

\* C9 as amended: iedb() attaches the metadata record before chain
\* indexing, vdjdb() runs chain indexing before it attaches the metadata
\* record; in both the rows are all normalized before assembly, persist
\* comes after both steps and the persisted container is the returned one.
C9_OrderPerLoader ==
    FetchPathReturned =>
        /\ FetchPathSteps =
              IF fn = "iedb"
              THEN <<"fetch", "from_airr_cells", "uns_DB", "index_chains", "write_h5ad">>
              ELSE <<"fetch", "from_airr_cells", "index_chains", "uns_DB", "write_h5ad">>
        /\ ReturnedIsPersisted

\* C9's case: vdjdb() has returned from the fetch path with a cell.
C9_Witness ==
    /\ fn = "vdjdb" /\ FetchPathReturned
    /\ Len(result.value.obs) = 1
    /\ cacheFile # cache0

\* C10: the cache file is written at most once per call, and only after
\* fetch, normalization of every row, assembly, metadata and chain indexing;
\* a call that fails leaves the file as it was.
C10_CacheWrittenOnceAtTheEnd ==
    /\ Len(SelectSeq(steps, LAMBDA st : st = "write_h5ad")) <= 1
    /\ "write_h5ad" \notin StepsMade => cacheFile = cache0
    /\ "write_h5ad" \in StepsMade =>
          /\ steps[Len(steps)] = "write_h5ad"
          /\ {"fetch", "from_airr_cells", "uns_DB", "index_chains"} \subseteq StepsMade
          /\ Len(tcr_cells) = Len(df.rows)
          /\ cacheFile = write_h5ad(adata)
          /\ adata.obs = tcr_cells
          /\ "DB" \in DOMAIN adata.uns /\ adata.chain_indices # NULL
    /\ result.kind = "raise" => cacheFile = cache0

\* C10's case: the call failed on its second row, after it had built a
\* cell, and the valid cache file is as it was.
C10_Witness ==
    /\ pc = "done" /\ result = Raised("KeyError")
    /\ Len(tcr_cells) = 1
    /\ cache0.kind = "h5ad" /\ cacheFile = cache0

====
